---------------------------- MODULE Spec2Model ----------------------------
(***************************************************************************)
(* Model of the transport and session layer of rust-boinc-rpc:             *)
(*   src/src/rpc.rs  DaemonStream::connect / authenticate / query          *)
(*   src/src/lib.rs  ConnState, Transport::new / poll_ready / call         *)
(*   src/src/errors.rs  Error and its From<std::io::Error> conversion      *)
(*                                                                         *)
(* One Transport is modelled.  Its owner polls readiness and creates call  *)
(* futures; each future is a separate task that may run, suspend at its    *)
(* await points, or be dropped.  A panic (unwrap on None, unreachable!)    *)
(* is modelled as its own outcome, never as an error value.                *)
(***************************************************************************)
EXTENDS Integers, Sequences, FiniteSets, TLC

(***************************************************************************)
(* Bounds of the model.                                                    *)
(***************************************************************************)
\* number of call futures the owner of the Transport may create
MaxCalls == 2
\* largest number of children in a reply frame received by the handshake
MaxChildren == 2

\* number of frames a peer writes to a codec
MaxFrames == 2

\* number of times the service under a Client can be asked to get ready
MaxAttempts == 2

VARIABLES
    password,    \* Option<String> given to Transport::new
    state,       \* Transport.state: Option<ConnState> behind the Mutex
    lockHolder,  \* holder of the tokio Mutex: 0 = unlocked, i = call future i
    hs,          \* the DaemonStreamFuture created by Transport::new
    conn,        \* where the DaemonStream (the connection) lives
    wire,        \* frames written to / read from the connection, in order
    fut,         \* the futures returned by Transport::call
    pollOut,     \* what the latest poll_ready returned
    polls,       \* parity of the number of poll_ready invocations so far
    permit       \* the latest poll_ready returned Ready(Ok) and no call used it

tvars == <<password, state, lockHolder, hs, conn, wire, fut, pollOut, polls, permit>>

\* a BoincCodec fed by a peer, as Framed drives it
VARIABLES
    mode,        \* BoincCodec.mode
    peer,        \* the mode of the peer's codec
    next_index,  \* BoincCodec.next_index
    src,         \* the read buffer decode is called with
    net,         \* bytes the peer has written that are not read yet
    sentq,       \* the peer's frames whose terminator decode has not reached
    nsent,       \* number of frames the peer has written
    dec          \* result of the last decode call, the frame it consumed, and
                 \* whether it found that frame from a remembered offset

cvars == <<mode, peer, next_index, src, net, sentq, nsent, dec>>

\* one call of verify_rpc_reply_contents
VARIABLES
    reply,       \* the children of the reply it is called with
    verdict      \* what it returned

rvars == <<reply, verdict>>

\* a Client over a tower::Service
VARIABLES
    svc,         \* what the service answers to successive ready() calls
    op           \* the operation the Client runs

ovars == <<svc, op>>

vars == <<tvars, cvars, rvars, ovars>>

(***************************************************************************)
(* Error values (src/src/errors.rs).                                       *)
(***************************************************************************)
NoErr == [kind |-> "none", msg |-> "", arg |-> "<None>"]

\* an Error whose message is the format string m filled with the value a
ErrorOf(k, m, a) == [kind |-> k, msg |-> m, arg |-> a]

Error(k, m) == ErrorOf(k, m, "<None>")

\* impl From<std::io::Error> for Error
FromIoError(m) == Error("NetworkError", m)

\* impl From<treexml::Error> for Error
FromXmlError(m) == Error("DataParseError", m)

\* Result<_, Error>
Ok(v) == [ok |-> TRUE, val |-> v, err |-> NoErr]

Err(e) == [ok |-> FALSE, val |-> 0, err |-> e]

NoResult == [ok |-> FALSE, val |-> 0, err |-> NoErr]

(***************************************************************************)
(* Option<String> values: passwords, nonces and element texts.             *)
(***************************************************************************)
None == "<None>"

Passwords == {None, "p1"}

NonceTexts == {None, "n1"}

ErrorTexts == {None, "e1"}

\* compute_nonce_hash with the password hashed before the nonce
compute_nonce_hash_PasswordFirst(pass, nonce) == <<pass, nonce>>

\* compute_nonce_hash: hex MD5 of the nonce followed by the password; the
\* digest is kept symbolic as the pair it is computed from, in that order.
compute_nonce_hash(pass, nonce) == <<nonce, pass>>

NoHash == <<None, None>>

(***************************************************************************)
(* Reply frames seen by the handshake: a sequence of children, each a      *)
(* treexml::Element reduced to its name and text.                          *)
(***************************************************************************)
Element(n, t) == [name |-> n, text |-> t]

Children ==
    {Element("nonce", t) : t \in NonceTexts}
      \cup {Element("error", t) : t \in ErrorTexts}
      \cup {Element(n, None) : n \in {"unauthorized", "authorized", "other"}}

SeqsUpTo(S, n) == UNION {[1..k -> S] : k \in 0..n}

Frames == SeqsUpTo(Children, MaxChildren)

(***************************************************************************)
(* Wire events.                                                            *)
(***************************************************************************)
WriteEv(kind, id, hash) ==
    [dir |-> "w", kind |-> kind, id |-> id, hash |-> hash, data |-> <<>>]

ReadEv(kind, id, data) ==
    [dir |-> "r", kind |-> kind, id |-> id, hash |-> NoHash, data |-> data]


(***************************************************************************)
(* Outcomes of the I/O operations, chosen by the network and the daemon.   *)
(***************************************************************************)
\* Framed::try_next without a well-formed frame: std::io::Error, clean end
\* of stream (Ok(None)), end of stream inside a frame (Framed reports the
\* io error "bytes remaining on stream"), or a frame BoincCodec::decode
\* rejects (XML error, wrong root name, empty document).
RecvFailures == {"io_error", "eof", "eof_partial", "bad_xml", "bad_root", "null_root"}

\* outcomes that are failures of the connection itself
IoLevelFailures == {"io_error", "eof", "eof_partial"}

\* the Error with which conn.try_next().await?.ok_or_else(..)? returns
RecvError(o) ==
    CASE o = "io_error"    -> FromIoError("connection reset")
      [] o = "eof"         -> Error("DaemonError", "EOF")
      [] o = "eof_partial" -> FromIoError("bytes remaining on stream")
      [] o = "bad_xml"     -> FromXmlError("XML error")
      [] o = "bad_root"    -> Error("DataParseError", "Invalid root")
      [] o = "null_root"   -> Error("NullError", "Root is empty")

\* the Error with which conn.send(..).await? returns
SendError == FromIoError("write failed")

\* the Error with which TcpStream::connect(host).await? returns
ConnectError == FromIoError("connection refused")

(***************************************************************************)
(* DaemonStream::authenticate (src/src/rpc.rs:130-194).                    *)
(***************************************************************************)
NoFrame == "none"

\* the match reporting a repeated nonce as an authentication error
AuthMatch_NonceAgainIsAuth(node, pwd, nonce_sent) ==
    CASE node.name = "nonce" ->
           IF nonce_sent
           THEN [ret |-> "err", hash |-> NoHash,
                 err |-> Error("AuthError",
                               "Daemon requested nonce again - could be a bug")]
           ELSE IF pwd = None
           THEN [ret |-> "err", hash |-> NoHash,
                 err |-> Error("AuthError", "Password required for nonce")]
           ELSE IF node.text = None
           THEN [ret |-> "err", hash |-> NoHash,
                 err |-> Error("AuthError", "Invalid nonce")]
           ELSE [ret |-> "nonce", hash |-> compute_nonce_hash(pwd, node.text),
                 err |-> NoErr]
      [] node.name = "unauthorized" ->
           [ret |-> "err", hash |-> NoHash, err |-> Error("AuthError", "unauthorized")]
      [] node.name = "error" ->
           [ret |-> "err", hash |-> NoHash,
            err |-> ErrorOf("DaemonError", "BOINC daemon returned error: {:?}", node.text)]
      [] node.name = "authorized" ->
           [ret |-> "ok", hash |-> NoHash, err |-> NoErr]
      [] OTHER ->
           [ret |-> "err", hash |-> NoHash,
            err |-> ErrorOf("DaemonError", "Invalid response from daemon: {}", node.name)]

\* the match with a "nonce" arm that hashes with an empty password when
\* none was configured
AuthMatch_NoPasswordCheck(node, pwd, nonce_sent) ==
    CASE node.name = "nonce" ->
           IF nonce_sent
           THEN [ret |-> "err", hash |-> NoHash,
                 err |-> Error("DaemonError",
                               "Daemon requested nonce again - could be a bug")]
           ELSE IF node.text = None
           THEN [ret |-> "err", hash |-> NoHash,
                 err |-> Error("AuthError", "Invalid nonce")]
           ELSE [ret |-> "nonce", hash |-> compute_nonce_hash(pwd, node.text),
                 err |-> NoErr]
      [] node.name = "unauthorized" ->
           [ret |-> "err", hash |-> NoHash, err |-> Error("AuthError", "unauthorized")]
      [] node.name = "error" ->
           [ret |-> "err", hash |-> NoHash,
            err |-> ErrorOf("DaemonError", "BOINC daemon returned error: {:?}", node.text)]
      [] node.name = "authorized" ->
           [ret |-> "ok", hash |-> NoHash, err |-> NoErr]
      [] OTHER ->
           [ret |-> "err", hash |-> NoHash,
            err |-> ErrorOf("DaemonError", "Invalid response from daemon: {}", node.name)]

\* the match with the results of the "unauthorized" and "error" arms
\* exchanged
AuthMatch_ArmsSwapped(node, pwd, nonce_sent) ==
    CASE node.name = "nonce" ->
           IF nonce_sent
           THEN [ret |-> "err", hash |-> NoHash,
                 err |-> Error("DaemonError",
                               "Daemon requested nonce again - could be a bug")]
           ELSE IF pwd = None
           THEN [ret |-> "err", hash |-> NoHash,
                 err |-> Error("AuthError", "Password required for nonce")]
           ELSE IF node.text = None
           THEN [ret |-> "err", hash |-> NoHash,
                 err |-> Error("AuthError", "Invalid nonce")]
           ELSE [ret |-> "nonce", hash |-> compute_nonce_hash(pwd, node.text),
                 err |-> NoErr]
      [] node.name = "error" ->
           [ret |-> "err", hash |-> NoHash, err |-> Error("AuthError", "unauthorized")]
      [] node.name = "unauthorized" ->
           [ret |-> "err", hash |-> NoHash,
            err |-> ErrorOf("DaemonError", "BOINC daemon returned error: {:?}", node.text)]
      [] node.name = "authorized" ->
           [ret |-> "ok", hash |-> NoHash, err |-> NoErr]
      [] OTHER ->
           [ret |-> "err", hash |-> NoHash,
            err |-> ErrorOf("DaemonError", "Invalid response from daemon: {}", node.name)]

\* The `match &*node.name {..}` of authenticate for one child: it returns
\* from authenticate (ret = "ok" / "err") or, in the "nonce" arm, prepares
\* the auth2 frame with the hash (ret = "nonce").
AuthMatch(node, pwd, nonce_sent) ==
    CASE node.name = "nonce" ->
           IF nonce_sent
           THEN [ret |-> "err", hash |-> NoHash,
                 err |-> Error("DaemonError",
                               "Daemon requested nonce again - could be a bug")]
           ELSE IF pwd = None
           THEN [ret |-> "err", hash |-> NoHash,
                 err |-> Error("AuthError", "Password required for nonce")]
           ELSE IF node.text = None
           THEN [ret |-> "err", hash |-> NoHash,
                 err |-> Error("AuthError", "Invalid nonce")]
           ELSE [ret |-> "nonce", hash |-> compute_nonce_hash(pwd, node.text),
                 err |-> NoErr]
      [] node.name = "unauthorized" ->
           [ret |-> "err", hash |-> NoHash, err |-> Error("AuthError", "unauthorized")]
      [] node.name = "error" ->
           [ret |-> "err", hash |-> NoHash,
            err |-> ErrorOf("DaemonError", "BOINC daemon returned error: {:?}", node.text)]
      [] node.name = "authorized" ->
           [ret |-> "ok", hash |-> NoHash, err |-> NoErr]
      [] OTHER ->
           [ret |-> "err", hash |-> NoHash,
            err |-> ErrorOf("DaemonError", "Invalid response from daemon: {}", node.name)]

\* the `for node in data {..}` of authenticate, from child k on: either a
\* child makes authenticate return (ret = "ok" / "err") or the loop falls
\* through (ret = "continue") with the updated `out` and `nonce_sent`.
RECURSIVE AuthFor(_, _, _, _, _, _)
AuthFor(data, k, pwd, out, hash, nonce_sent) ==
    IF k > Len(data)
    THEN [ret |-> "continue", err |-> NoErr, out |-> out, hash |-> hash,
          nonce_sent |-> nonce_sent]
    ELSE LET m == AuthMatch(data[k], pwd, nonce_sent)
         IN  IF m.ret = "nonce"
             THEN AuthFor(data, k + 1, pwd, "auth2", m.hash, TRUE)
             ELSE [ret |-> m.ret, err |-> m.err, out |-> out, hash |-> hash,
                   nonce_sent |-> nonce_sent]

\* The future DaemonStream::connect(addr, password) as Transport::new makes
\* it: not yet polled, about to run TcpStream::connect.
HsInit ==
    [pc |-> "connect", io |-> FALSE, out |-> NoFrame, hash |-> NoHash,
     nonce_sent |-> FALSE, res |-> NoResult]

HsDone(h, r) == [h EXCEPT !.pc = "done", !.res = r]

\* authenticate whose loop head takes a reply without children for success
AuthLoopHead_EmptyIsOk(h, r) ==
    IF r.out = NoFrame
    THEN HsDone(h, Ok(0))
    ELSE [h EXCEPT !.pc = "send", !.out = r.out, !.hash = r.hash,
                   !.nonce_sent = r.nonce_sent]

\* authenticate whose loop head reads once more, without writing, after the
\* first reply without children
AuthLoopHead_EmptyReadsAgain(h, r) ==
    IF r.out = NoFrame
    THEN IF h.nonce_sent
         THEN HsDone(h, Err(Error("DaemonError", "Empty response")))
         ELSE [h EXCEPT !.pc = "recv", !.nonce_sent = TRUE]
    ELSE [h EXCEPT !.pc = "send", !.out = r.out, !.hash = r.hash,
                   !.nonce_sent = r.nonce_sent]

\* The head of the next iteration of `loop` after the for loop fell through
\* with r: `if let Some(data) = out.take() {..} else { return Err(..) }`.
AuthLoopHead(h, r) ==
    IF r.out = NoFrame
    THEN HsDone(h, Err(Error("DaemonError", "Empty response")))
    ELSE [h EXCEPT !.pc = "send", !.out = r.out, !.hash = r.hash,
                   !.nonce_sent = r.nonce_sent]

\* One completed I/O operation of the handshake future, as a set of
\* successor configurations [h |-> future, w |-> wire].
HsNext(c, pwd) ==
    LET h == c.h
        w == c.w
    IN  CASE h.pc = "connect" ->
               \* TcpStream::connect(host).await?, then authenticate starts
               \* with out = Some(vec![auth1]) and takes it at the loop head
               { [h |-> [h EXCEPT !.pc = "send", !.io = TRUE, !.out = "auth1"],
                  w |-> w],
                 [h |-> HsDone(h, Err(ConnectError)), w |-> w] }
          [] h.pc = "send" ->
               \* conn.send(data).await?
               { [h |-> [h EXCEPT !.pc = "recv", !.out = NoFrame],
                  w |-> Append(w, WriteEv(h.out, 0, h.hash))],
                 [h |-> HsDone(h, Err(SendError)), w |-> w] }
          [] h.pc = "recv" ->
               \* conn.try_next().await?.ok_or_else(EOF)?, the for loop, and
               \* the head of the next iteration of `loop`
               { LET r == AuthFor(data, 1, pwd, h.out, h.hash, h.nonce_sent)
                     w2 == Append(w, ReadEv("hs", 0, data))
                 IN  CASE r.ret = "ok"  -> [h |-> HsDone(h, Ok(0)), w |-> w2]
                       [] r.ret = "err" -> [h |-> HsDone(h, Err(r.err)), w |-> w2]
                       [] OTHER -> [h |-> AuthLoopHead(h, r), w |-> w2]
                 : data \in Frames }
               \cup
               { [h |-> HsDone(h, Err(RecvError(o))),
                  w |-> IF o \in IoLevelFailures THEN w
                        ELSE Append(w, ReadEv("bad", 0, <<>>))]
                 : o \in RecvFailures }
          [] OTHER -> {}

\* Polling the future: it runs until an I/O operation is not ready (any of
\* the configurations on the way) or until it returns.
RECURSIVE HsRun(_, _)
HsRun(c, pwd) ==
    IF c.h.pc = "done"
    THEN {c}
    ELSE {c} \cup UNION {HsRun(d, pwd) : d \in HsNext(c, pwd)}

\* where the connection is once the future is in state h
HsConn(h) ==
    IF ~h.io THEN "none"
    ELSE IF h.pc # "done" THEN "hs"
    ELSE IF h.res.ok THEN "slot" ELSE "dropped"

(***************************************************************************)
(* Transport (src/src/lib.rs:280-352).                                     *)
(***************************************************************************)
\* Option<ConnState>: None, Some(Connecting(future)), Some(Ready(conn)),
\* Some(Error(error)).  The future and the connection are the variables hs
\* and conn; the slot records which variant it holds.
StNone == [tag |-> "None", err |-> NoErr]

StConnecting == [tag |-> "Connecting", err |-> NoErr]

StReady == [tag |-> "Ready", err |-> NoErr]

StError(e) == [tag |-> "Error", err |-> e]

\* Poll<Result<(), Error>> returned by poll_ready; "panic" is the unwrap of
\* an empty slot, "none" is before the first poll.
PollNone == [tag |-> "none", err |-> NoErr]

PollPending == [tag |-> "Pending", err |-> NoErr]

PollReadyOk == [tag |-> "Ready", err |-> NoErr]

PollReadyErr(e) == [tag |-> "Err", err |-> e]

PollPanic == [tag |-> "panic", err |-> NoErr]

\* poll_ready with a Connecting arm that stores Ready whatever the future
\* returned
PollReadyMatch_ErrIsReady(st, h) ==
    CASE st.tag = "Connecting" ->
           IF h.pc # "done"
           THEN [state |-> StConnecting, out |-> PollPending]
           ELSE [state |-> StReady, out |-> PollReadyOk]
      [] st.tag = "Ready" ->
           [state |-> StReady, out |-> PollReadyOk]
      [] st.tag = "Error" ->
           [state |-> StError(st.err), out |-> PollReadyErr(st.err)]

\* poll_ready with a Ready arm that does not put the connection back
PollReadyMatch_ReadyNotRestored(st, h) ==
    CASE st.tag = "Connecting" ->
           IF h.pc # "done"
           THEN [state |-> StConnecting, out |-> PollPending]
           ELSE IF h.res.ok
           THEN [state |-> StReady, out |-> PollReadyOk]
           ELSE [state |-> StNone, out |-> PollReadyErr(h.res.err)]
      [] st.tag = "Ready" ->
           [state |-> StNone, out |-> PollReadyOk]
      [] st.tag = "Error" ->
           [state |-> StError(st.err), out |-> PollReadyErr(st.err)]

\* The `match g.take().unwrap() {..}` of poll_ready for a slot that holds
\* Some(st); h is the handshake future after it was polled (used by the
\* Connecting arm only).  Gives the pair (state, out).
PollReadyMatch(st, h) ==
    CASE st.tag = "Connecting" ->
           IF h.pc # "done"
           THEN [state |-> StConnecting, out |-> PollPending]
           ELSE IF h.res.ok
           THEN [state |-> StReady, out |-> PollReadyOk]
           ELSE [state |-> StNone, out |-> PollReadyErr(h.res.err)]
      [] st.tag = "Ready" ->
           [state |-> StReady, out |-> PollReadyOk]
      [] st.tag = "Error" ->
           [state |-> StError(st.err), out |-> PollReadyErr(st.err)]

\* call without the store of the error
StateAfterQuery_NotStored(taken, res) == taken

\* `if let Err(e) = &res { *state = Some(ConnState::Error(e.clone())); }` of
\* call: the slot after the query, given the slot as take() left it.
StateAfterQuery(taken, res) ==
    IF ~res.ok THEN StError(res.err) ELSE taken

\* the futures returned by call
Calls == 1..MaxCalls

FutInit == [pc |-> "unused", at |-> "none", res |-> NoResult]

\* the request frame of call i and the reply the daemon gives to a request
ReqEv(i) == WriteEv("req", i, NoHash)

Requests(w) == SelectSeq(w, LAMBDA e : e.dir = "w" /\ e.kind = "req")

Replies(w) == SelectSeq(w, LAMBDA e : e.dir = "r" /\ e.kind \in {"reply", "bad"})

\* the protocol has no request identifiers: the next frame read after the
\* handshake answers the oldest request not yet answered
NextAnswered(w) == Requests(w)[Len(Replies(w)) + 1].id

(***************************************************************************)
(* BoincCodec (src/src/rpc.rs:23-117).  A byte is its number 0..255.       *)
(* ISO-8859-1 maps every byte to the character with the same code and      *)
(* back, so text is written with the same numbers.  Code gives the codes   *)
(* of the characters the model writes, B the bytes of a string.            *)
(***************************************************************************)
TERMCHAR == 3

Code ==
    ("<" :> 60) @@ (">" :> 62) @@ ("/" :> 47) @@ (" " :> 32) @@
    ("&" :> 38) @@ (";" :> 59) @@ ("?" :> 63) @@ ("!" :> 33) @@
    ("=" :> 61) @@ ("." :> 46) @@ ("-" :> 45) @@ ("_" :> 95) @@
    ("'" :> 39) @@ ("\"" :> 34) @@ ("a" :> 97) @@ ("b" :> 98) @@
    ("c" :> 99) @@ ("d" :> 100) @@ ("e" :> 101) @@ ("f" :> 102) @@
    ("g" :> 103) @@ ("h" :> 104) @@ ("i" :> 105) @@ ("j" :> 106) @@
    ("k" :> 107) @@ ("l" :> 108) @@ ("m" :> 109) @@ ("n" :> 110) @@
    ("o" :> 111) @@ ("p" :> 112) @@ ("q" :> 113) @@ ("r" :> 114) @@
    ("s" :> 115) @@ ("t" :> 116) @@ ("u" :> 117) @@ ("v" :> 118) @@
    ("w" :> 119) @@ ("x" :> 120) @@ ("y" :> 121) @@ ("z" :> 122) @@
    ("0" :> 48) @@ ("1" :> 49) @@ ("2" :> 50) @@ ("3" :> 51) @@
    ("4" :> 52) @@ ("5" :> 53) @@ ("6" :> 54) @@ ("7" :> 55) @@
    ("8" :> 56) @@ ("9" :> 57) @@ ("I" :> 73) @@ ("S" :> 83) @@ ("O" :> 79)

B(t) == [i \in DOMAIN t |-> Code[t[i]]]

\* the markup the writer and the parser use
Lt == B(<<"<">>)

Gt == B(<<">">>)

Amp == B(<<"&">>)

Space == Code[" "]

SlashGt == B(<<"/", ">">>)

SpaceSlashGt == B(<<" ", "/", ">">>)

LtSlash == B(<<"<", "/">>)

EntLt == B(<<"&", "l", "t", ";">>)

EntGt == B(<<"&", "g", "t", ";">>)

EntAmp == B(<<"&", "a", "m", "p", ";">>)

\* "boinc_gui_rpc_request" and "boinc_gui_rpc_reply"
RequestName ==
    B(<<"b", "o", "i", "n", "c", "_", "g", "u", "i", "_", "r", "p", "c",
      "_", "r", "e", "q", "u", "e", "s", "t">>)

ReplyName ==
    B(<<"b", "o", "i", "n", "c", "_", "g", "u", "i", "_", "r", "p", "c",
      "_", "r", "e", "p", "l", "y">>)

\* the prologue the encoder strips: <?xml version='1.0'?>
EncoderProlog ==
    B(<<"<", "?", "x", "m", "l", " ", "v", "e", "r", "s", "i", "o", "n",
      "=", "'", "1", ".", "0", "'", "?", ">">>)

\* the prologue the decoder strips:
\* <?xml version="1.0" encoding="ISO-8859-1" ?>
DecoderProlog ==
    B(<<"<", "?", "x", "m", "l", " ", "v", "e", "r", "s", "i", "o", "n",
      "=", "\"", "1", ".", "0", "\"", " ", "e", "n", "c", "o", "d",
      "i", "n", "g", "=", "\"", "I", "S", "O", "-", "8", "8", "5", "9",
      "-", "1", "\"", " ", "?", ">">>)

CodecModes == {"Client", "Server"}

\* treexml::Element: name, text (<<>> for None) and children
XmlElement(n, t, c) == [name |-> n, text |-> t, children |-> c]

\* p occurs in s at index i
StartsAt(s, i, p) ==
    /\ i + Len(p) - 1 <= Len(s)
    /\ SubSeq(s, i, i + Len(p) - 1) = p

\* str::find from index i: the first index where p occurs, 0 for none
Find(s, i, p) ==
    LET m == {j \in i..Len(s) : StartsAt(s, j, p)}
    IN  IF m = {} THEN 0 ELSE CHOOSE j \in m : \A k \in m : j <= k

\* str::replace: every non-overlapping match of pat, from the left
RECURSIVE Replace(_, _, _, _)
Replace(s, i, pat, rep) ==
    LET m == Find(s, i, pat)
    IN  IF m = 0 THEN SubSeq(s, i, Len(s))
        ELSE SubSeq(s, i, m - 1) \o rep \o Replace(s, m + Len(pat), pat, rep)

\* str::trim_start_matches: strips every leading repetition of pat
RECURSIVE TrimStartMatches(_, _)
TrimStartMatches(s, pat) ==
    IF StartsAt(s, 1, pat)
    THEN TrimStartMatches(SubSeq(s, Len(pat) + 1, Len(s)), pat)
    ELSE s

(***************************************************************************)
(* treexml's writer, as format!("{}", out) uses it (rpc.rs:104): character *)
(* data is written with `<` and `&` escaped, an element without text and   *)
(* children is written as `<name />`, and the document starts with the     *)
(* prologue.                                                               *)
(***************************************************************************)
RECURSIVE EscapePcdata(_)
EscapePcdata(t) ==
    IF t = <<>> THEN <<>>
    ELSE (CASE Head(t) = Lt[1] -> EntLt
            [] Head(t) = Amp[1] -> EntAmp
            [] OTHER -> <<Head(t)>>) \o EscapePcdata(Tail(t))

RECURSIVE WriteElement(_)
RECURSIVE WriteElements(_)
WriteElement(e) ==
    IF e.text = <<>> /\ e.children = <<>>
    THEN Lt \o e.name \o SpaceSlashGt
    ELSE Lt \o e.name \o Gt
         \o EscapePcdata(e.text) \o WriteElements(e.children)
         \o LtSlash \o e.name \o Gt

WriteElements(es) ==
    IF es = <<>> THEN <<>> ELSE WriteElement(Head(es)) \o WriteElements(Tail(es))

Display(e) == EncoderProlog \o WriteElement(e)

(***************************************************************************)
(* treexml::Document::parse as util::parse_node calls it (util.rs:5-11),   *)
(* for documents made of elements and character data with the entities     *)
(* &lt;, &gt; and &amp;.  Character data that is only whitespace is no     *)
(* text.                                                                   *)
(***************************************************************************)
NameBytes ==
    {Code[c] : c \in {"a", "b", "c", "d", "e", "f", "g", "h", "i", "j", "k",
                      "l", "m", "n", "o", "p", "q", "r", "s", "t", "u", "v",
                      "w", "x", "y", "z", "0", "1", "2", "3", "4", "5", "6",
                      "7", "8", "9", "_"}}

RECURSIVE NameEnd(_, _)
NameEnd(s, i) ==
    IF i <= Len(s) /\ s[i] \in NameBytes THEN NameEnd(s, i + 1) ELSE i

RECURSIVE SkipSpace(_, _)
SkipSpace(s, i) ==
    IF i <= Len(s) /\ s[i] = Space THEN SkipSpace(s, i + 1) ELSE i

TextOf(t) == IF \A i \in DOMAIN t : t[i] = Space THEN <<>> ELSE t

\* character data with its entities replaced, or not ok for another entity
RECURSIVE UnescapePcdata(_, _)
UnescapePcdata(t, i) ==
    LET m == Find(t, i, Amp)
        ent == IF StartsAt(t, m, EntLt)
               THEN [n |-> 4, c |-> Lt[1]]
               ELSE IF StartsAt(t, m, EntGt)
               THEN [n |-> 4, c |-> Gt[1]]
               ELSE IF StartsAt(t, m, EntAmp)
               THEN [n |-> 5, c |-> Amp[1]]
               ELSE [n |-> 0, c |-> 0]
        r == UnescapePcdata(t, m + ent.n)
    IN  IF m = 0 THEN [ok |-> TRUE, t |-> SubSeq(t, i, Len(t))]
        ELSE IF ent.n = 0 \/ ~r.ok THEN [ok |-> FALSE, t |-> <<>>]
        ELSE [ok |-> TRUE, t |-> SubSeq(t, i, m - 1) \o <<ent.c>> \o r.t]

ParseFail == [ok |-> FALSE, el |-> XmlElement(<<>>, <<>>, <<>>), pos |-> 0]

RECURSIVE ParseElement(_, _)
RECURSIVE ParseContent(_, _, _, _, _)
\* an element whose start tag opens at index i
ParseElement(s, i) ==
    IF ~(i <= Len(s) /\ s[i] = Lt[1]) THEN ParseFail
    ELSE LET j == NameEnd(s, i + 1)
             k == SkipSpace(s, j)
             name == SubSeq(s, i + 1, j - 1)
         IN  IF name = <<>> THEN ParseFail
             ELSE IF StartsAt(s, k, SlashGt)
             THEN [ok |-> TRUE, el |-> XmlElement(name, <<>>, <<>>), pos |-> k + 2]
             ELSE IF StartsAt(s, k, Gt)
             THEN ParseContent(s, k + 1, name, <<>>, <<>>)
             ELSE ParseFail

\* the content of element `name` from index i up to its end tag
ParseContent(s, i, name, text, kids) ==
    LET m == Find(s, i, Lt)
        chunk == UnescapePcdata(SubSeq(s, i, m - 1), 1)
        j == NameEnd(s, m + 2)
        k == SkipSpace(s, j)
        c == ParseElement(s, m)
    IN  IF m = 0 \/ ~chunk.ok THEN ParseFail
        ELSE IF StartsAt(s, m, LtSlash)
        THEN IF SubSeq(s, m + 2, j - 1) = name /\ StartsAt(s, k, Gt)
             THEN [ok |-> TRUE,
                   el |-> XmlElement(name, TextOf(text \o chunk.t), kids),
                   pos |-> k + 1]
             ELSE ParseFail
        ELSE IF c.ok
        THEN ParseContent(s, c.pos, name, text \o chunk.t, Append(kids, c.el))
        ELSE ParseFail

\* util::parse_node: Ok(root) or the error of the parser
parse_node(s) ==
    LET r == ParseElement(s, SkipSpace(s, 1))
    IN  IF r.ok /\ SkipSpace(s, r.pos) > Len(s)
        THEN [ok |-> TRUE, root |-> r.el, err |-> NoErr]
        ELSE [ok |-> FALSE, root |-> ParseFail.el,
              err |-> FromXmlError("XML error: {}")]

(***************************************************************************)
(* Encoder::encode (rpc.rs:93-116): the bytes appended to dst.             *)
(***************************************************************************)
EncodeRoot(m) == IF m = "Client" THEN RequestName ELSE ReplyName

Serialized(m, item) ==
    Replace(Replace(Display(XmlElement(EncodeRoot(m), <<>>, item)),
                    1, EncoderProlog, <<>>),
            1, SpaceSlashGt, SlashGt)

encode(m, item, dst) == dst \o Serialized(m, item) \o <<TERMCHAR>>

(***************************************************************************)
(* Decoder::decode (rpc.rs:50-87): the result, the new next_index and the  *)
(* buffer left.  A next_index beyond the buffer makes the slice            *)
(* src[next_index..read_to] panic.                                         *)
(***************************************************************************)
DecNone == [tag |-> "None", item |-> <<>>, err |-> NoErr]

DecSome(item) == [tag |-> "Some", item |-> item, err |-> NoErr]

DecErr(e) == [tag |-> "Err", item |-> <<>>, err |-> e]

DecPanic == [tag |-> "panic", item |-> <<>>, err |-> NoErr]

\* a decoder that expects the envelope its own encoder writes
ExpectedRoot_OwnEnvelope(m) == IF m = "Client" THEN RequestName ELSE ReplyName

ExpectedRoot(m) == IF m = "Client" THEN ReplyName ELSE RequestName

\* the frame text between the buffer start and the terminator
DecodeLine(m, line) ==
    LET r == parse_node(TrimStartMatches(line, DecoderProlog))
    IN  IF ~r.ok THEN DecErr(r.err)
        ELSE IF r.root.name # ExpectedRoot(m)
        THEN DecErr(Error("DataParseError", "Invalid root: {}. Expected: {}"))
        ELSE DecSome(r.root.children)

\* the terminators src[next_index..read_to].iter().position() can find, as
\* offsets from next_index
Offsets(nidx, buf) ==
    {o \in 0..(Len(buf) - nidx - 1) : buf[nidx + o + 1] = TERMCHAR}

Position(nidx, buf) ==
    CHOOSE o \in Offsets(nidx, buf) : \A q \in Offsets(nidx, buf) : o <= q

\* decode that takes the offset found for the index in the buffer
decode_OffsetNotAdded(m, nidx, buf) ==
    LET read_to == Len(buf)
    IN  IF nidx > read_to
        THEN [res |-> DecPanic, next_index |-> nidx, src |-> buf]
        ELSE IF Offsets(nidx, buf) # {}
        THEN LET newline_index == Position(nidx, buf)
             IN  [res |-> DecodeLine(m, SubSeq(buf, 1, newline_index)),
                  next_index |-> 0,
                  src |-> SubSeq(buf, newline_index + 2, read_to)]
        ELSE [res |-> DecNone, next_index |-> read_to, src |-> buf]

\* decode that does not remember how far it has scanned
decode_OffsetNotRemembered(m, nidx, buf) ==
    LET read_to == Len(buf)
    IN  IF nidx > read_to
        THEN [res |-> DecPanic, next_index |-> nidx, src |-> buf]
        ELSE IF Offsets(nidx, buf) # {}
        THEN LET newline_index == Position(nidx, buf) + nidx
             IN  [res |-> DecodeLine(m, SubSeq(buf, 1, newline_index)),
                  next_index |-> 0,
                  src |-> SubSeq(buf, newline_index + 2, read_to)]
        ELSE [res |-> DecNone, next_index |-> nidx, src |-> buf]

\* decode that keeps next_index when it has found a terminator
decode_OffsetNotReset(m, nidx, buf) ==
    LET read_to == Len(buf)
    IN  IF nidx > read_to
        THEN [res |-> DecPanic, next_index |-> nidx, src |-> buf]
        ELSE IF Offsets(nidx, buf) # {}
        THEN LET newline_index == Position(nidx, buf) + nidx
             IN  [res |-> DecodeLine(m, SubSeq(buf, 1, newline_index)),
                  next_index |-> nidx,
                  src |-> SubSeq(buf, newline_index + 2, read_to)]
        ELSE [res |-> DecNone, next_index |-> read_to, src |-> buf]

\* newline_index counts from 0: the line is the first newline_index bytes
decode(m, nidx, buf) ==
    LET read_to == Len(buf)
    IN  IF nidx > read_to
        THEN [res |-> DecPanic, next_index |-> nidx, src |-> buf]
        ELSE IF Offsets(nidx, buf) # {}
        THEN LET newline_index == Position(nidx, buf) + nidx
             IN  [res |-> DecodeLine(m, SubSeq(buf, 1, newline_index)),
                  next_index |-> 0,
                  src |-> SubSeq(buf, newline_index + 2, read_to)]
        ELSE [res |-> DecNone, next_index |-> read_to, src |-> buf]

(***************************************************************************)
(* The frames a peer writes: children encoded by a codec of either role,   *)
(* and frames written by other software.                                   *)
(***************************************************************************)
\* <auth1/>
ElAuth1 == XmlElement(B(<<"a", "u", "t", "h", "1">>), <<>>, <<>>)

\* <msg><url>a&b</url></msg>
ElMsg ==
    XmlElement(B(<<"m", "s", "g">>), <<>>,
               <<XmlElement(B(<<"u", "r", "l">>), B(<<"a", "&", "b">>), <<>>)>>)

\* <name>x />y</name>
ElName ==
    XmlElement(B(<<"n", "a", "m", "e">>), B(<<"x", " ", "/", ">", "y">>), <<>>)

CodecItems == {<<ElMsg, ElAuth1>>, <<ElName>>}

\* an empty document
RawFrames == {<<TERMCHAR>>}

EncFrame(m, item) == [kind |-> "enc", mode |-> m, item |-> item, raw |-> <<>>]

RawFrame(r) == [kind |-> "raw", mode |-> "none", item |-> <<>>, raw |-> r]

NoWireFrame == [kind |-> "none", mode |-> "none", item |-> <<>>, raw |-> <<>>]

FrameBytes(f) ==
    IF f.kind = "enc" THEN encode(f.mode, f.item, <<>>) ELSE f.raw

WireFrames ==
    {EncFrame(m, item) : m \in CodecModes, item \in CodecItems}
       \cup {RawFrame(r) : r \in RawFrames}

\* the bytes of every frame of WireFrames
Encoded == [f \in WireFrames |-> FrameBytes(f)]

\* the client's codec before any byte arrives (rpc.rs:38-43, rpc.rs:131)
CodecNew(m, p) ==
    /\ mode = m
    /\ peer = p
    /\ next_index = 0
    /\ src = <<>>
    /\ net = <<>>
    /\ sentq = <<>>
    /\ nsent = 0
    /\ dec = [res |-> DecNone, frame |-> NoWireFrame, resumed |-> FALSE]

(***************************************************************************)
(* verify_rpc_reply_contents (src/src/lib.rs:36-67) on the children of a   *)
(* reply.                                                                  *)
(***************************************************************************)
VOk(b) == [ok |-> TRUE, val |-> b, err |-> NoErr]

VErr(e) == [ok |-> FALSE, val |-> FALSE, err |-> e]

NoVerdict == [ok |-> FALSE, val |-> FALSE, err |-> NoErr]

\* texts of an `error` child: the four the match names, two near misses,
\* another text, and no text
ReplyErrorTexts ==
    {None, "unauthorized", "Missing authenticator", "Missing URL",
     "Already attached to project", "missing url", "Missing URL.",
     "something else"}

\* texts of a `status` child: a number, not a number, and no text
StatusTexts == {None, "-1", "x"}

\* util::eval_node_contents::<i32> (util.rs:13-21) on those texts
eval_node_contents(node) ==
    IF node.text \in {"-1"} THEN node.text ELSE None

ReplyChildren ==
    {Element("success", None), Element("unauthorized", None),
     Element("other", None)}
       \cup {Element("status", t) : t \in StatusTexts}
       \cup {Element("error", t) : t \in ReplyErrorTexts}

ReplyLists == SeqsUpTo(ReplyChildren, MaxChildren)

\* the match without the "Missing URL" arm
VerifyMatch_NoUrlArm(node) ==
    CASE node.name = "success" -> [ret |-> "success", err |-> NoErr]
      [] node.name = "status" ->
           [ret |-> "err",
            err |-> ErrorOf("StatusError", "",
                            IF eval_node_contents(node) = None
                            THEN "9999" ELSE eval_node_contents(node))]
      [] node.name = "unauthorized" ->
           [ret |-> "err", err |-> Error("AuthError", "")]
      [] node.name = "error" ->
           [ret |-> "err",
            err |-> IF node.text = None
                    THEN Error("DaemonError", "Unknown error")
                    ELSE CASE node.text = "unauthorized" ->
                                Error("AuthError", node.text)
                           [] node.text = "Missing authenticator" ->
                                Error("AuthError", node.text)
                           [] node.text = "Already attached to project" ->
                                Error("AlreadyAttachedError", node.text)
                           [] OTHER -> Error("DataParseError", node.text)]
      [] OTHER -> [ret |-> "skip", err |-> NoErr]

\* the match on node.name (lib.rs:39-64)
VerifyMatch(node) ==
    CASE node.name = "success" -> [ret |-> "success", err |-> NoErr]
      [] node.name = "status" ->
           [ret |-> "err",
            err |-> ErrorOf("StatusError", "",
                            IF eval_node_contents(node) = None
                            THEN "9999" ELSE eval_node_contents(node))]
      [] node.name = "unauthorized" ->
           [ret |-> "err", err |-> Error("AuthError", "")]
      [] node.name = "error" ->
           [ret |-> "err",
            err |-> IF node.text = None
                    THEN Error("DaemonError", "Unknown error")
                    ELSE CASE node.text = "unauthorized" ->
                                Error("AuthError", node.text)
                           [] node.text = "Missing authenticator" ->
                                Error("AuthError", node.text)
                           [] node.text = "Missing URL" ->
                                Error("InvalidURLError", node.text)
                           [] node.text = "Already attached to project" ->
                                Error("AlreadyAttachedError", node.text)
                           [] OTHER -> Error("DataParseError", node.text)]
      [] OTHER -> [ret |-> "skip", err |-> NoErr]

\* the loop over data (lib.rs:37-66)
RECURSIVE VerifyFor(_, _, _)
VerifyFor(data, k, success) ==
    IF k > Len(data) THEN VOk(success)
    ELSE IF VerifyMatch(data[k]).ret = "err" THEN VErr(VerifyMatch(data[k]).err)
    ELSE VerifyFor(data, k + 1, success \/ VerifyMatch(data[k]).ret = "success")

\* a `success` child anywhere decides the result
verify_rpc_reply_contents_SuccessWins(data) ==
    IF \E k \in DOMAIN data : data[k].name = "success"
    THEN VOk(TRUE)
    ELSE VerifyFor(data, 1, FALSE)

verify_rpc_reply_contents(data) == VerifyFor(data, 1, FALSE)

VerifyNew(replies) ==
    /\ reply \in replies
    /\ verdict = NoVerdict

(***************************************************************************)
(* Client<S> (src/src/lib.rs:354-560) over a service S: the operations     *)
(* exchange_versions (through get_object) and get_results (through         *)
(* get_vec).                                                               *)
(***************************************************************************)
\* Option<i64>
NoInt == [some |-> FALSE, v |-> 0]

SomeInt(v) == [some |-> TRUE, v |-> v]

\* format!("{}", v) of the integers the model uses
FormatInt(v) == CASE v = 1 -> "1" [] v = 2 -> "2" [] v = 3 -> "3"

\* Option<i64>::map(|v| format!("{}", v))
MapFormat(x) == IF x.some THEN FormatInt(x.v) ELSE None

\* models::VersionInfo
VersionInfos ==
    [major : {NoInt, SomeInt(1), SomeInt(2)},
     minor : {NoInt, SomeInt(1), SomeInt(2)},
     release : {NoInt, SomeInt(3)}]

NoInfo == [major |-> NoInt, minor |-> NoInt, release |-> NoInt]

\* the operations a caller can start
Ops ==
    {[kind |-> "exchange_versions", info |-> i, active_only |-> FALSE] :
        i \in VersionInfos}
      \cup {[kind |-> "get_results", info |-> NoInfo, active_only |-> b] :
               b \in BOOLEAN}

\* a request element with its children
Request(n, c) == [name |-> n, children |-> c]

NoRequest == Request(None, <<>>)

\* the content node built by exchange_versions (lib.rs:507-522) and by
\* get_results (lib.rs:531-539)
RequestOf(o) ==
    IF o.kind = "exchange_versions"
    THEN Request("exchange_versions",
                 <<Element("major", MapFormat(o.info.minor)),
                   Element("minor", MapFormat(o.info.major)),
                   Element("release", MapFormat(o.info.release))>>)
    ELSE Request("get_results",
                 IF o.active_only THEN <<Element("active_only", "1")>> ELSE <<>>)

\* the tag get_object / get_vec looks for among the children of the reply
TagOf(o) == IF o.kind = "exchange_versions" THEN "server_version" ELSE "results"

\* the error of a reply without that tag
NotFound(o) ==
    IF o.kind = "exchange_versions"
    THEN Error("DataParseError", "Object not found.")
    ELSE Error("DataParseError", "Objects not found.")

\* errors of a service: what Transport reports for a handshake or a query
ReadyResults ==
    {VOk(TRUE), VErr(ConnectError), VErr(Error("AuthError", "unauthorized")),
     VErr(Error("DaemonError", "Empty response")),
     VErr(Error("DataParseError", "Invalid root"))}

CallErrors ==
    {SendError, RecvError("io_error"), RecvError("eof"), RecvError("bad_root")}

\* children of the replies a service hands to the Client
ClientChildren ==
    {Element("success", None), Element("unauthorized", None),
     Element("status", "-1"), Element("error", None),
     Element("error", "something else"),
     Element("server_version", None), Element("results", None)}

ClientReplies == SeqsUpTo(ClientChildren, MaxChildren)

OpIdle ==
    [pc |-> "idle", o |-> [kind |-> "none", info |-> NoInfo, active_only |-> FALSE],
     req |-> NoRequest, sent |-> <<>>, readies |-> 0,
     got |-> NoVerdict, res |-> NoVerdict]

\* ready() that is asked again after an error
AfterReady_AsksAgain(p, r, more) ==
    IF r.ok THEN [p EXCEPT !.pc = "call"]
    ELSE IF more THEN p
    ELSE [p EXCEPT !.pc = "done", !.res = r]

\* `self.transport.ready().await?`: the operation after ready() returned r
\* (`more` tells whether the service could be asked again)
AfterReady(p, r, more) ==
    IF r.ok THEN [p EXCEPT !.pc = "call"]
    ELSE [p EXCEPT !.pc = "done", !.res = r]

\* the rest of get_object / get_vec after call() returned Ok(data)
\* (lib.rs:373-379, lib.rs:401-417)
AfterReply(p, data) ==
    IF ~verify_rpc_reply_contents(data).ok
    THEN verify_rpc_reply_contents(data)
    ELSE IF \E k \in DOMAIN data : data[k].name = TagOf(p.o)
    THEN VOk(TRUE)
    ELSE VErr(NotFound(p.o))

ClientNew(scripts) ==
    /\ svc \in scripts
    /\ op = OpIdle

TransportNew(pwds) ==
    /\ password \in pwds
    /\ state = StConnecting
    /\ lockHolder = 0
    /\ hs = HsInit
    /\ conn = "none"
    /\ wire = <<>>
    /\ fut = [i \in Calls |-> FutInit]
    /\ pollOut = PollNone
    /\ polls = 0
    /\ permit = FALSE

Init ==
    /\ TransportNew(Passwords)
    /\ CodecNew("Client", "Server")
    /\ VerifyNew({<<>>})
    /\ ClientNew({<<>>})

(***************************************************************************)
(* Transport::poll_ready (src/src/lib.rs:307-331), one atomic step.        *)
(***************************************************************************)
\* try_lock fails: another task holds the lock
PollReadyLocked ==
    /\ polls' = 1 - polls
    /\ lockHolder # 0
    /\ pollOut' = PollPending
    /\ permit' = FALSE
    /\ UNCHANGED <<password, state, lockHolder, hs, conn, wire, fut, cvars, rvars, ovars>>

\* g.take().unwrap() on an empty slot
PollReadyEmpty ==
    /\ polls' = 1 - polls
    /\ lockHolder = 0
    /\ state.tag = "None"
    /\ pollOut' = PollPanic
    /\ permit' = FALSE
    /\ UNCHANGED <<password, state, lockHolder, hs, conn, wire, fut, cvars, rvars, ovars>>

\* the Connecting arm: the handshake future is polled
PollReadyConnecting ==
    /\ polls' = 1 - polls
    /\ lockHolder = 0
    /\ state.tag = "Connecting"
    /\ \E c \in HsRun([h |-> hs, w |-> wire], password) :
          LET m == PollReadyMatch(state, c.h)
          IN  /\ hs' = c.h
              /\ wire' = c.w
              /\ conn' = HsConn(c.h)
              /\ state' = m.state
              /\ pollOut' = m.out
              /\ permit' = (m.out = PollReadyOk)
    /\ UNCHANGED <<password, lockHolder, fut, cvars, rvars, ovars>>

\* the Ready and Error arms
PollReadySettled ==
    /\ polls' = 1 - polls
    /\ lockHolder = 0
    /\ state.tag \in {"Ready", "Error"}
    /\ LET m == PollReadyMatch(state, hs)
       IN  /\ state' = m.state
           /\ pollOut' = m.out
           /\ permit' = (m.out = PollReadyOk)
    /\ UNCHANGED <<password, lockHolder, hs, conn, wire, fut, cvars, rvars, ovars>>

(***************************************************************************)
(* Transport::call (src/src/lib.rs:333-351).  call itself only builds the  *)
(* future; the owner calls it after a poll_ready that reported ready, as   *)
(* tower::Service requires.  The body runs when the future is polled and   *)
(* suspends at lock().await and at the two awaits of DaemonStream::query.  *)
(***************************************************************************)
Call(i) ==
    /\ permit
    /\ fut[i].pc = "unused"
    /\ \A j \in Calls : j < i => fut[j].pc # "unused"
    /\ fut' = [fut EXCEPT ![i].pc = "created"]
    /\ permit' = FALSE
    /\ UNCHANGED <<password, state, lockHolder, hs, conn, wire, pollOut, polls, cvars, rvars, ovars>>

\* state.lock().await completes; state.take(); the match on it
CallLock(i) ==
    /\ fut[i].pc = "created"
    /\ lockHolder = 0
    /\ state' = StNone
    /\ IF state.tag = "Ready"
       THEN /\ lockHolder' = i
            /\ conn' = "call"
            /\ fut' = [fut EXCEPT ![i].pc = "send"]
       ELSE \* unreachable!(): the task unwinds and the guard is dropped
            /\ lockHolder' = 0
            /\ conn' = conn
            /\ fut' = [fut EXCEPT ![i].pc = "panicked"]
    /\ UNCHANGED <<password, hs, wire, pollOut, polls, permit, cvars, rvars, ovars>>

\* the end of the async block: the slot is written if the query failed, the
\* guard and the local `conn` are dropped
CallReturn(i, res, w) ==
    /\ state' = StateAfterQuery(state, res)
    /\ lockHolder' = 0
    /\ conn' = "dropped"
    /\ wire' = w
    /\ fut' = [fut EXCEPT ![i].pc = "done", ![i].res = res]
    /\ UNCHANGED <<password, hs, pollOut, polls, permit, cvars, rvars, ovars>>

\* DaemonStream::query: self.conn.send(request_data).await?
CallSend(i) ==
    /\ fut[i].pc = "send"
    /\ \/ /\ wire' = Append(wire, ReqEv(i))
          /\ fut' = [fut EXCEPT ![i].pc = "recv"]
          /\ UNCHANGED <<password, state, lockHolder, hs, conn, pollOut, polls, permit, cvars, rvars, ovars>>
       \/ CallReturn(i, Err(SendError), wire)

\* DaemonStream::query: self.conn.try_next().await?.ok_or_else(EOF)?
CallRecv(i) ==
    /\ fut[i].pc = "recv"
    /\ \/ LET k == NextAnswered(wire)
          IN  CallReturn(i, Ok(k), Append(wire, ReadEv("reply", k, <<>>)))
       \/ \E o \in RecvFailures :
             CallReturn(i, Err(RecvError(o)),
                        IF o \in IoLevelFailures THEN wire
                        ELSE Append(wire, ReadEv("bad", NextAnswered(wire), <<>>)))

\* The caller drops the future at one of its suspension points: the guard
\* and the connection it owns (if it got that far) are dropped with it.
CallDrop(i) ==
    /\ fut[i].pc \in {"created", "send", "recv"}
    /\ fut' = [fut EXCEPT ![i].pc = "dropped", ![i].at = fut[i].pc]
    /\ IF fut[i].pc = "created"
       THEN UNCHANGED <<lockHolder, conn>>
       ELSE /\ lockHolder' = 0
            /\ conn' = "dropped"
    /\ UNCHANGED <<password, state, hs, wire, pollOut, polls, permit, cvars, rvars, ovars>>

Next ==
    \/ PollReadyLocked
    \/ PollReadyEmpty
    \/ PollReadyConnecting
    \/ PollReadySettled
    \/ \E i \in Calls : Call(i)
    \/ \E i \in Calls : CallLock(i)
    \/ \E i \in Calls : CallSend(i)
    \/ \E i \in Calls : CallRecv(i)
    \/ \E i \in Calls : CallDrop(i)

Spec == Init /\ [][Next]_vars

(***************************************************************************)
(* A BoincCodec under Framed (rpc.rs:120, rpc.rs:131): the peer writes     *)
(* frames, Framed moves bytes that have arrived into the buffer and calls  *)
(* decode.  Framed reads more only after decode has scanned the whole      *)
(* buffer; a read takes one byte, all bytes that have arrived, or any      *)
(* number of them into an empty buffer.  Bytes the peer has written are    *)
(* invisible to the codec until they are read, so the peer writes its      *)
(* frames before the first byte is read.                                   *)
(***************************************************************************)
\* the peer's codec encodes the children and the frame is written
PeerEncode(item) ==
    /\ nsent < MaxFrames
    /\ nsent = Len(sentq) /\ src = <<>>
    /\ net' = net \o Encoded[EncFrame(peer, item)]
    /\ sentq' = Append(sentq, EncFrame(peer, item))
    /\ nsent' = nsent + 1
    /\ UNCHANGED <<mode, peer, next_index, src, dec, tvars, rvars, ovars>>

\* the peer writes a frame that no BoincCodec has encoded
PeerRaw(r) ==
    /\ nsent < MaxFrames
    /\ nsent = Len(sentq) /\ src = <<>>
    /\ net' = net \o r
    /\ sentq' = Append(sentq, RawFrame(r))
    /\ nsent' = nsent + 1
    /\ UNCHANGED <<mode, peer, next_index, src, dec, tvars, rvars, ovars>>

\* k bytes arrive in the buffer
Read(k) ==
    /\ next_index = Len(src)
    /\ k \in 1..Len(net)
    /\ k = 1 \/ k = Len(net) \/ src = <<>>
    /\ src' = src \o SubSeq(net, 1, k)
    /\ net' = SubSeq(net, k + 1, Len(net))
    /\ UNCHANGED <<mode, peer, next_index, sentq, nsent, dec, tvars, rvars, ovars>>

\* one call of decode on the buffer
Decode ==
    \E r \in {decode(mode, next_index, src)} :
       LET took == r.res.tag \in {"Some", "Err"} /\ sentq # <<>>
       IN  /\ next_index' = r.next_index
           /\ src' = r.src
           /\ dec' = [res |-> r.res,
                      frame |-> IF took THEN Head(sentq) ELSE NoWireFrame,
                      resumed |-> took /\ next_index > 0]
           /\ sentq' = IF took THEN Tail(sentq) ELSE sentq
           /\ UNCHANGED <<mode, peer, net, nsent, tvars, rvars, ovars>>

InitCodec ==
    /\ TransportNew({None})
    /\ \E m, p \in CodecModes : CodecNew(m, p)
    /\ VerifyNew({<<>>})
    /\ ClientNew({<<>>})

NextCodec ==
    \/ \E item \in CodecItems : PeerEncode(item)
    \/ \E r \in RawFrames : PeerRaw(r)
    \/ \E k \in 1..Len(net) : Read(k)
    \/ Decode

SpecCodec == InitCodec /\ [][NextCodec]_vars

(***************************************************************************)
(* verify_rpc_reply_contents called once on the children of a reply.       *)
(***************************************************************************)
Verify ==
    /\ verdict = NoVerdict
    /\ verdict' = verify_rpc_reply_contents(reply)
    /\ UNCHANGED <<reply, tvars, cvars, ovars>>

InitVerify ==
    /\ TransportNew({None})
    /\ CodecNew("Client", "Server")
    /\ VerifyNew(ReplyLists)
    /\ ClientNew({<<>>})

NextVerify == Verify

SpecVerify == InitVerify /\ [][NextVerify]_vars

(***************************************************************************)
(* A task that awaits readiness (tower's ready(): poll_ready is called     *)
(* when the task is polled).  A task that got Pending is polled again only *)
(* when a waker it registered is woken.  The Connecting arm hands cx to    *)
(* the handshake future, whose I/O wakes the task; the try_lock branch     *)
(* (lib.rs:308-311) returns Pending without touching cx, so nothing is     *)
(* registered with the lock.  While a query of the same task is in flight  *)
(* its I/O still wakes the task; once the lock is released nothing does.   *)
(***************************************************************************)
\* the latest poll_ready returned Pending from the try_lock branch: the
\* slot is never Connecting once a call future exists
PendingOnLock == pollOut = PollPending /\ state.tag # "Connecting"

\* the task will be polled: it has not been left pending, or a waker of it
\* is registered with I/O in progress
Awake == ~PendingOnLock \/ lockHolder # 0

WaitPoll ==
    /\ Awake
    /\ \/ PollReadyLocked
       \/ PollReadyEmpty
       \/ PollReadyConnecting
       \/ PollReadySettled

\* a call future runs up to its next await
CallStep(i) == CallLock(i) \/ CallSend(i) \/ CallRecv(i)

InitWait ==
    /\ TransportNew(Passwords \ {None})
    /\ CodecNew("Client", "Server")
    /\ VerifyNew({<<>>})
    /\ ClientNew({<<>>})

NextWait ==
    \/ WaitPoll
    \/ \E i \in Calls : Call(i)
    \/ \E i \in Calls : CallStep(i)
    \/ \E i \in Calls : CallDrop(i)

\* the executor polls a task that was woken, and I/O in progress completes
SpecWait ==
    /\ InitWait
    /\ [][NextWait]_vars
    /\ WF_vars(WaitPoll)
    /\ \A i \in Calls : WF_vars(CallStep(i))

(***************************************************************************)
(* One operation of a Client.  The service answers ready() as svc says and *)
(* call() with an error or with the children of a reply.                   *)
(***************************************************************************)
\* the operation is called: it builds its request (lib.rs:503-524, 526-545)
ClientStart(o) ==
    /\ op.pc = "idle"
    /\ op' = [op EXCEPT !.pc = "ready", !.o = o, !.req = RequestOf(o)]
    /\ UNCHANGED <<svc, tvars, cvars, rvars>>

\* self.transport.ready().await?
ClientReady ==
    /\ op.pc = "ready"
    /\ op.readies < Len(svc)
    /\ op' = AfterReady([op EXCEPT !.readies = @ + 1], svc[op.readies + 1],
                        op.readies + 1 < Len(svc))
    /\ UNCHANGED <<svc, tvars, cvars, rvars>>

\* self.transport.call(req_data).await? with an error
ClientCallErr(e) ==
    /\ op.pc = "call"
    /\ op' = [op EXCEPT !.pc = "done", !.sent = Append(@, op.req),
                        !.got = VErr(e), !.res = VErr(e)]
    /\ UNCHANGED <<svc, tvars, cvars, rvars>>

\* self.transport.call(req_data).await? with a reply, and the rest of
\* get_object / get_vec
ClientCallOk(data) ==
    /\ op.pc = "call"
    /\ reply' = data
    /\ verdict' = verify_rpc_reply_contents(data)
    /\ op' = [op EXCEPT !.pc = "done", !.sent = Append(@, op.req),
                        !.got = VOk(TRUE), !.res = AfterReply(op, data)]
    /\ UNCHANGED <<svc, tvars, cvars>>

InitClient ==
    /\ TransportNew({None})
    /\ CodecNew("Client", "Server")
    /\ VerifyNew({<<>>})
    /\ ClientNew([1..MaxAttempts -> ReadyResults])

NextClient ==
    \/ \E o \in Ops : ClientStart(o)
    \/ ClientReady
    \/ \E e \in CallErrors : ClientCallErr(e)
    \/ \E data \in ClientReplies : ClientCallOk(data)

SpecClient == InitClient /\ [][NextClient]_vars

(***************************************************************************)
(* Vocabulary of the properties.                                           *)
(***************************************************************************)
\* the Errors an I/O-level failure of a query produces
IoFailureErrors == {SendError} \cup {RecvError(o) : o \in IoLevelFailures}

\* the Errors a reply frame rejected by the codec produces
MalformedReplyErrors == {RecvError(o) : o \in RecvFailures \ IoLevelFailures}

\* poll_ready is invoked in this step
Polled == polls' # polls

\* the body of future i starts to run in this step
Starts(i) == fut[i].pc = "created" /\ fut'[i].pc \notin {"created", "dropped"}

\* future i returns in this step
Returns(i) == fut[i].pc \in {"send", "recv"} /\ fut'[i].pc = "done"

\* a handshake reply frame with an `authorized` child
AuthorizedRead(e) ==
    /\ e.dir = "r"
    /\ e.kind = "hs"
    /\ \E m \in 1..Len(e.data) : e.data[m].name = "authorized"

\* a future was abandoned between sending its request and reading the reply
AbandonedInFlight == \E i \in Calls : fut[i].pc = "dropped" /\ fut[i].at = "recv"

\* no future was dropped by its caller
NoneDropped == \A i \in Calls : fut[i].pc # "dropped"

(***************************************************************************)
(* C1: after a query that completes successfully the slot holds Ready      *)
(* again, with the connection, when the lock is released.                  *)
(***************************************************************************)
C1_ReadyAfterSuccess ==
    [][\A i \in Calls :
          (Returns(i) /\ fut'[i].res.ok)
             => (lockHolder' = 0 /\ state' = StReady /\ conn' = "slot")]_vars

(***************************************************************************)
(* C2: when every query follows a readiness poll that reported ready and   *)
(* no future is abandoned, poll_ready never unwraps an empty slot and call *)
(* never reaches unreachable!().                                           *)
(***************************************************************************)
C2_NeverAborts ==
    NoneDropped =>
       /\ pollOut # PollPanic
       /\ \A i \in Calls : fut[i].pc # "panicked"

(***************************************************************************)
(* C3: queries of concurrent callers are serialized on the wire (every     *)
(* request frame is followed by the read of its own reply before the next  *)
(* request frame) and each caller gets the reply to its own request: a     *)
(* caller is left without one only if some query failed or was abandoned.  *)
(***************************************************************************)
C3_SerializedQueries ==
    /\ \A k \in 1..Len(wire) :
          (wire[k].dir = "w" /\ wire[k].kind = "req" /\ k < Len(wire))
             => (wire[k + 1].dir = "r" /\ wire[k + 1].id = wire[k].id)
    /\ \A i \in Calls :
          (fut[i].pc = "done" /\ fut[i].res.ok) => fut[i].res.val = i
    /\ (\E i \in Calls : fut[i].pc = "panicked")
          => \E j \in Calls : \/ fut[j].pc = "dropped"
                              \/ fut[j].pc = "done" /\ ~fut[j].res.ok

(***************************************************************************)
(* C4: the handshake runs once and first: the first frame written is the   *)
(* only auth1, no request frame is written before a handshake reply with   *)
(* `authorized` was read, and the slot holds Ready only after the          *)
(* handshake future returned Ok on such a reply.                           *)
(***************************************************************************)
C4_HandshakeFirst ==
    /\ \A k \in 1..Len(wire) :
          /\ (wire[k].kind = "auth1") <=> (k = 1)
          /\ (wire[k].dir = "w" /\ wire[k].kind \notin {"auth1", "auth2"})
                => \E j \in 1..(k - 1) : AuthorizedRead(wire[j])
    /\ state.tag = "Ready"
          => /\ hs.pc = "done" /\ hs.res.ok
             /\ \E j \in 1..Len(wire) : AuthorizedRead(wire[j])

C4_Witness ==
    \E k \in 1..Len(wire) : wire[k].dir = "w" /\ wire[k].kind = "req"

(***************************************************************************)
(* C5: a query that fails with an I/O-level failure leaves Error(e) in the *)
(* slot, e being the error it returns; from then on nothing is written to  *)
(* or read from the connection and the slot never holds Connecting or      *)
(* Ready.                                                                  *)
(***************************************************************************)
C5_IoFailureStored ==
    [][/\ \A i \in Calls :
             (Returns(i) /\ fut'[i].res.err \in IoFailureErrors)
                => (state' = StError(fut'[i].res.err) /\ lockHolder' = 0)
       /\ (\E i \in Calls : fut[i].pc = "done" /\ fut[i].res.err \in IoFailureErrors)
             => /\ wire' = wire
                /\ hs' = hs
                /\ state'.tag \notin {"Connecting", "Ready"}]_vars

C5_Witness ==
    \E i \in Calls :
       /\ fut[i].pc = "done"
       /\ fut[i].res.err \in IoFailureErrors
       /\ state = StError(fut[i].res.err)
       /\ pollOut = PollReadyErr(fut[i].res.err)

(***************************************************************************)
(* C6: a query that fails because its reply frame is malformed leaves the  *)
(* slot Ready with the connection, and the slot holds Error only for the   *)
(* errors of I/O-level failures.                                           *)
(***************************************************************************)
C6_MalformedReplyKeepsReady ==
    [][/\ \A i \in Calls :
             (Returns(i) /\ fut'[i].res.err \in MalformedReplyErrors)
                => (state' = StReady /\ conn' = "slot")
       /\ state'.tag = "Error" => state'.err \in IoFailureErrors]_vars

(***************************************************************************)
(* C7: once the slot holds Error(e) it holds Error(e) for ever, nothing    *)
(* more is written or read, and every readiness poll reports e.            *)
(***************************************************************************)
C7_FailedAbsorbing ==
    [][state.tag = "Error"
          => /\ state' = state
             /\ wire' = wire
             /\ Polled => pollOut' = PollReadyErr(state.err)]_vars

(***************************************************************************)
(* C8: the poll in which the handshake future returns reports its result   *)
(* and stores it: Ready on Ok, Error(e) on Err(e).                         *)
(***************************************************************************)
C8_HandshakeResultStored ==
    [][(state.tag = "Connecting" /\ hs.pc # "done" /\ hs'.pc = "done")
          => IF hs'.res.ok
             THEN state' = StReady /\ pollOut' = PollReadyOk
             ELSE /\ state' = StError(hs'.res.err)
                  /\ pollOut' = PollReadyErr(hs'.res.err)]_vars

(***************************************************************************)
(* C9: after a query was abandoned in flight, the next poll_ready reports  *)
(* an error of the network kind and finds the slot Failed, a query run     *)
(* after it ends with such an error, and nothing more goes over the wire.  *)
(***************************************************************************)
C9_AbandonedQueryFails ==
    [][AbandonedInFlight
          => /\ wire' = wire
             /\ Polled
                  => /\ pollOut'.tag = "Err"
                     /\ pollOut'.err.kind = "NetworkError"
                     /\ state' = StError(pollOut'.err)
             /\ \A j \in Calls :
                  Starts(j)
                     => /\ fut'[j].pc = "done"
                        /\ fut'[j].res.err.kind = "NetworkError"]_vars

(***************************************************************************)
(* C10: poll_ready only reports, except for advancing the handshake: with  *)
(* the lock held elsewhere it reports pending and changes nothing; on      *)
(* Ready it reports ready and on Error(e) it reports e, leaving slot and   *)
(* connection as they are; on Connecting with the handshake still pending  *)
(* it reports pending and the slot stays Connecting.  The result depends   *)
(* only on what is left unchanged, so repeating the poll repeats it.       *)
(***************************************************************************)
C10_PollOnlyReports ==
    [][Polled
          => /\ lockHolder # 0
                  => /\ pollOut' = PollPending
                     /\ UNCHANGED <<state, lockHolder, hs, conn, wire, fut>>
             /\ (lockHolder = 0 /\ state.tag = "Ready")
                  => /\ pollOut' = PollReadyOk
                     /\ conn = "slot"
                     /\ UNCHANGED <<state, lockHolder, hs, conn, wire, fut>>
             /\ (lockHolder = 0 /\ state.tag = "Error")
                  => /\ pollOut' = PollReadyErr(state.err)
                     /\ UNCHANGED <<state, lockHolder, hs, conn, wire, fut>>
             /\ (lockHolder = 0 /\ state.tag = "Connecting" /\ hs'.pc # "done")
                  => /\ pollOut' = PollPending
                     /\ UNCHANGED <<state, lockHolder, fut>>]_vars

C10_Witness ==
    /\ lockHolder # 0
    /\ pollOut = PollPending

(***************************************************************************)
(* Vocabulary of the handshake properties.                                 *)
(***************************************************************************)
\* the reply frames the handshake has read, and all frames written
HsReads(w) == SelectSeq(w, LAMBDA e : e.dir = "r" /\ e.kind = "hs")

Writes(w) == SelectSeq(w, LAMBDA e : e.dir = "w")

\* the children of the f-th reply frame of the handshake
HsFrame(f) == HsReads(wire)[f].data

HsFrames == 1..Len(HsReads(wire))

\* the handshake future returns in this step
HsReturns == hs.pc # "done" /\ hs'.pc = "done"

\* The first child of the first reply is a nonce that the client answers:
\* it has a text and a password is configured.
NonceProcessed ==
    /\ HsFrames # {}
    /\ Len(HsFrame(1)) >= 1
    /\ HsFrame(1)[1].name = "nonce"
    /\ HsFrame(1)[1].text # None
    /\ password # None

\* child k of reply f is a nonce other than the first child of the first reply
LaterNonce(f, k) ==
    /\ HsFrame(f)[k].name = "nonce"
    /\ <<f, k>> # <<1, 1>>

\* a child that is `unauthorized`, `error`, `authorized` or unrecognised
Decides(c) == c.name # "nonce"

\* k is the first such child of reply f
FirstDecider(f, k) ==
    /\ Decides(HsFrame(f)[k])
    /\ \A j \in 1..(k - 1) : ~Decides(HsFrame(f)[j])

\* the result res is the one the claim gives for the deciding child c
DecidedBy(c, res) ==
    CASE c.name = "unauthorized" -> ~res.ok /\ res.err.kind = "AuthError"
      [] c.name = "error" ->
           ~res.ok /\ res.err.kind = "DaemonError" /\ res.err.arg = c.text
      [] c.name = "authorized" -> res.ok
      [] OTHER ->
           ~res.ok /\ res.err.kind = "DaemonError" /\ res.err.arg = c.name

(***************************************************************************)
(* C11: when the replies of the handshake are one `nonce` child with text  *)
(* n and then one `authorized` child, the wire holds exactly the auth1     *)
(* frame, the first reply, the auth2 frame whose nonce_hash is the digest  *)
(* of n followed by the password, and the second reply; the handshake      *)
(* returns Ok and the poll that completes it stores Ready.                 *)
(***************************************************************************)
C11_HappyReplies(w) ==
    /\ Len(HsReads(w)) = 2
    /\ Len(HsReads(w)[1].data) = 1
    /\ HsReads(w)[1].data[1].name = "nonce"
    /\ HsReads(w)[1].data[1].text # None
    /\ HsReads(w)[2].data = <<Element("authorized", None)>>

C11_HappyPath ==
    [][(HsReturns /\ C11_HappyReplies(wire'))
          => /\ wire' = << WriteEv("auth1", 0, NoHash),
                           HsReads(wire')[1],
                           WriteEv("auth2", 0,
                                   <<HsReads(wire')[1].data[1].text, password>>),
                           HsReads(wire')[2] >>
             /\ hs'.res.ok
             /\ state' = StReady
             /\ pollOut' = PollReadyOk]_vars

C11_Witness ==
    /\ state = StReady
    /\ Len(wire) = 4
    /\ wire[3] = WriteEv("auth2", 0, <<"n1", "p1">>)
    /\ wire[4].data = <<Element("authorized", None)>>

(***************************************************************************)
(* C12 as stated: whenever a nonce child follows, anywhere in the replies, *)
(* a nonce that was processed, the handshake ends with a daemon-level      *)
(* error; at most one auth2 frame is written and its hash is the one of    *)
(* the first nonce.                                                        *)
(***************************************************************************)
C12_OneHash ==
    /\ Cardinality({k \in 1..Len(wire) : wire[k].kind = "auth2"}) <= 1
    /\ \A k \in 1..Len(wire) :
          wire[k].kind = "auth2"
             => (NonceProcessed /\ wire[k].hash = <<HsFrame(1)[1].text, password>>)
    /\ hs.nonce_sent => (NonceProcessed /\ hs.hash = <<HsFrame(1)[1].text, password>>)

C12_AnyLaterNonceFails ==
    /\ C12_OneHash
    /\ \A f \in HsFrames : \A k \in 1..Len(HsFrame(f)) :
          (NonceProcessed /\ LaterNonce(f, k))
             => (hs.pc = "done" /\ ~hs.res.ok /\ hs.res.err.kind = "DaemonError")

(***************************************************************************)
(* C12 amended: a nonce child that follows a processed nonce and is        *)
(* reached by the dispatch (only nonce children before it in its frame)    *)
(* ends the handshake with the daemon-level error "Daemon requested nonce  *)
(* again"; at most one auth2 frame is written and its hash is the one of   *)
(* the first nonce.                                                        *)
(***************************************************************************)
C12_ReachedLaterNonceFails ==
    /\ C12_OneHash
    /\ \A f \in HsFrames : \A k \in 1..Len(HsFrame(f)) :
          (/\ NonceProcessed
           /\ LaterNonce(f, k)
           /\ \A j \in 1..(k - 1) : ~Decides(HsFrame(f)[j]))
             => /\ hs.pc = "done"
                /\ f = Len(HsReads(wire))
                /\ hs.res = Err(Error("DaemonError",
                                      "Daemon requested nonce again - could be a bug"))

C12_Witness ==
    /\ Len(HsReads(wire)) = 2
    /\ NonceProcessed
    /\ HsFrame(2)[1].name = "nonce"
    /\ hs.res.err.kind = "DaemonError"

(***************************************************************************)
(* C13 as stated: with no password, a reply to auth1 that holds a nonce    *)
(* child makes the handshake fail with an authentication error, and auth1  *)
(* is the only frame written.                                              *)
(***************************************************************************)
C13_Outcome ==
    /\ hs.pc = "done"
    /\ ~hs.res.ok
    /\ hs.res.err.kind = "AuthError"
    /\ Writes(wire) = <<WriteEv("auth1", 0, NoHash)>>

C13_AnyNonceNeedsPassword ==
    (/\ password = None
     /\ HsFrames # {}
     /\ \E k \in 1..Len(HsFrame(1)) : HsFrame(1)[k].name = "nonce")
       => C13_Outcome

(***************************************************************************)
(* C13 amended: with no password, a reply to auth1 whose first child is a  *)
(* nonce makes the handshake fail with an authentication error, and auth1  *)
(* is the only frame written.                                              *)
(***************************************************************************)
C13_NonceNeedsPassword ==
    (/\ password = None
     /\ HsFrames # {}
     /\ Len(HsFrame(1)) >= 1
     /\ HsFrame(1)[1].name = "nonce")
       => C13_Outcome

C13_Witness ==
    /\ password = None
    /\ HsFrames # {}
    /\ Len(HsFrame(1)) >= 1
    /\ HsFrame(1)[1] = Element("nonce", "n1")
    /\ hs.res.err = Error("AuthError", "Password required for nonce")

(***************************************************************************)
(* C14 as stated: in every reply of the handshake the first child that is  *)
(* `unauthorized`, `error`, `authorized` or unrecognised decides the       *)
(* outcome, whatever follows it: the handshake returns with the result of  *)
(* that child and reads no further reply.                                  *)
(***************************************************************************)
C14_FirstDeciderDecides ==
    \A f \in HsFrames : \A k \in 1..Len(HsFrame(f)) :
       FirstDecider(f, k)
          => /\ hs.pc = "done"
             /\ f = Len(HsReads(wire))
             /\ DecidedBy(HsFrame(f)[k], hs.res)

(***************************************************************************)
(* C14 amended: the same, unless a nonce child before the deciding child   *)
(* has already failed the handshake, that is, for a deciding child that is *)
(* the first child of its reply or follows only the processed nonce.       *)
(***************************************************************************)
C14_ReachedDeciderDecides ==
    \A f \in HsFrames : \A k \in 1..Len(HsFrame(f)) :
       (/\ FirstDecider(f, k)
        /\ k = 1 \/ (k = 2 /\ f = 1 /\ NonceProcessed))
          => /\ hs.pc = "done"
             /\ f = Len(HsReads(wire))
             /\ DecidedBy(HsFrame(f)[k], hs.res)

C14_Witness ==
    /\ HsFrames # {}
    /\ HsFrame(1) = <<Element("error", "e1"), Element("authorized", None)>>
    /\ hs.res = Err(ErrorOf("DaemonError", "BOINC daemon returned error: {:?}", "e1"))

(***************************************************************************)
(* C15: a reply without children, to auth1 or to auth2, ends the handshake *)
(* with an error: it is the last thing on the wire and the slot never      *)
(* holds Ready.                                                            *)
(***************************************************************************)
C15_EmptyReplyFails ==
    \A k \in 1..Len(wire) :
       (wire[k].dir = "r" /\ wire[k].kind = "hs" /\ wire[k].data = <<>>)
          => /\ k = Len(wire)
             /\ hs.pc = "done"
             /\ ~hs.res.ok
             /\ state.tag \notin {"Connecting", "Ready"}

C15_Witness ==
    /\ Len(wire) = 4
    /\ wire[4] = ReadEv("hs", 0, <<>>)
    /\ hs.res = Err(Error("DaemonError", "Empty response"))

(***************************************************************************)
(* Vocabulary of the codec properties.                                     *)
(***************************************************************************)
\* a decode call that changes the codec, the buffer or the last result
Decodes == net' = net /\ nsent' = nsent /\ cvars' # cvars

Opposite(m) == IF m = "Client" THEN "Server" ELSE "Client"

Terminators(buf) == {i \in DOMAIN buf : buf[i] = TERMCHAR}

FirstTerminator(buf) ==
    CHOOSE i \in Terminators(buf) : \A j \in Terminators(buf) : i <= j

\* the document of frame f opens with the start tag of an element `name`
RootIs(f, name) ==
    /\ f.kind # "none"
    /\ StartsAt(Encoded[f], 1, Lt \o name \o Gt)

(***************************************************************************)
(* C16: when decode returns on a frame that a codec of the opposite role   *)
(* has encoded, the result is Some of exactly the children that were       *)
(* encoded, in their order, without the envelope.                          *)
(***************************************************************************)
C16_RoundTrip ==
    (dec.frame.kind = "enc" /\ dec.frame.mode = Opposite(mode))
       => dec.res = DecSome(dec.frame.item)

(***************************************************************************)
(* C17: a Client codec encodes the boinc_gui_rpc_request envelope and a    *)
(* Server codec the boinc_gui_rpc_reply envelope; decode returns children  *)
(* only for a frame in the other envelope, and a frame in the codec's own  *)
(* envelope gives a DataParseError and no children.                        *)
(***************************************************************************)
C17_EnvelopeDirection ==
    /\ \A i \in DOMAIN sentq :
          sentq[i].kind = "enc"
             => RootIs(sentq[i],
                       IF sentq[i].mode = "Client" THEN RequestName ELSE ReplyName)
    /\ dec.res.tag = "Some"
          => RootIs(dec.frame, IF mode = "Client" THEN ReplyName ELSE RequestName)
    /\ RootIs(dec.frame, IF mode = "Client" THEN RequestName ELSE ReplyName)
          => /\ dec.res.tag = "Err"
             /\ dec.res.err.kind = "DataParseError"
             /\ dec.res.item = <<>>

C17_Witness ==
    /\ dec.frame.kind = "enc"
    /\ dec.frame.mode = mode
    /\ dec.res = DecErr(Error("DataParseError", "Invalid root: {}. Expected: {}"))

(***************************************************************************)
(* C18: every decode call, whatever prefix of the buffer earlier calls     *)
(* have scanned, returns the result and leaves the buffer that one decode  *)
(* call of a new codec gives on the whole buffer.                          *)
(***************************************************************************)
C18_SameAs(whole) ==
    /\ dec'.res = whole.res
    /\ src' = whole.src

C18_Resumable == [][Decodes => C18_SameAs(decode(mode, 0, src))]_vars

C18_Witness ==
    /\ dec.resumed
    /\ dec.frame.kind = "enc"
    /\ dec.res = DecSome(dec.frame.item)

(***************************************************************************)
(* C19: a decode call on a buffer that holds a terminator removes exactly  *)
(* the bytes up to and including the first terminator, which are the       *)
(* oldest frame not yet decoded, and sets next_index to 0, whether the     *)
(* frame parses or not; its result is the one a new codec gives for that   *)
(* frame alone.                                                            *)
(***************************************************************************)
C19_Removes(first) ==
    /\ src' = SubSeq(src, first + 1, Len(src))
    /\ next_index' = 0
    /\ sentq # <<>>
    /\ SubSeq(src, 1, first) = Encoded[Head(sentq)]
    /\ dec'.res = decode(mode, 0, Encoded[Head(sentq)]).res
    /\ dec'.res.tag \in {"Some", "Err"}

C19_FrameByFrame ==
    [][(Decodes /\ Terminators(src) # {})
          => C19_Removes(FirstTerminator(src))]_vars

C19_Witness ==
    /\ dec.res.tag = "Err"
    /\ next_index = 0
    /\ Terminators(src) # {}

(***************************************************************************)
(* Vocabulary of the properties of verify_rpc_reply_contents.              *)
(***************************************************************************)
\* a child on which the scan stops
Disqualifies(c) == c.name \in {"status", "unauthorized", "error"}

\* k is the first such child of the reply
FirstDisqualifier(k) ==
    /\ k \in DOMAIN reply
    /\ Disqualifies(reply[k])
    /\ \A j \in 1..(k - 1) : ~Disqualifies(reply[j])

(***************************************************************************)
(* C20: when the first child that stops the scan is an `error` child, the  *)
(* call returns the error selected by its exact text: AuthError for        *)
(* "unauthorized" and "Missing authenticator", InvalidURLError for         *)
(* "Missing URL", AlreadyAttachedError for "Already attached to project",  *)
(* DataParseError for every other text, each carrying the text, and        *)
(* DaemonError when the child has no text.                                 *)
(***************************************************************************)
C20_KindOf(t) ==
    CASE t = None -> "DaemonError"
      [] t \in {"unauthorized", "Missing authenticator"} -> "AuthError"
      [] t = "Missing URL" -> "InvalidURLError"
      [] t = "Already attached to project" -> "AlreadyAttachedError"
      [] OTHER -> "DataParseError"

C20_ErrorChildClassified ==
    \A k \in DOMAIN reply :
       (verdict # NoVerdict /\ FirstDisqualifier(k) /\ reply[k].name = "error")
          => /\ ~verdict.ok
             /\ verdict.err.kind = C20_KindOf(reply[k].text)
             /\ reply[k].text # None => verdict.err.msg = reply[k].text

C20_Witness ==
    /\ Len(reply) = 2
    /\ reply[1].name = "success"
    /\ reply[2] = Element("error", "Missing URL")
    /\ verdict = VErr(Error("InvalidURLError", "Missing URL"))

(***************************************************************************)
(* C21: the call returns an error exactly when the reply has a `status`,   *)
(* `unauthorized` or `error` child, and then the error of the first such   *)
(* child, whatever precedes it; otherwise it returns Ok(true) when the     *)
(* reply has a `success` child and Ok(false) when it has none.  Children   *)
(* of any other name do not change the result.                             *)
(***************************************************************************)
C21_Known(data) == SelectSeq(data, LAMBDA c : c.name # "other")

C21_FirstDisqualifierDecides ==
    verdict # NoVerdict =>
       /\ ~verdict.ok <=> \E k \in DOMAIN reply : Disqualifies(reply[k])
       /\ \A k \in DOMAIN reply :
             FirstDisqualifier(k) => verdict = VErr(VerifyMatch(reply[k]).err)
       /\ (\A k \in DOMAIN reply : ~Disqualifies(reply[k]))
             => verdict = VOk(\E k \in DOMAIN reply : reply[k].name = "success")
       /\ verdict = verify_rpc_reply_contents(C21_Known(reply))

C21_Witness ==
    /\ reply = <<Element("success", None), Element("unauthorized", None)>>
    /\ verdict = VErr(Error("AuthError", ""))

(***************************************************************************)
(* Vocabulary of the properties of a Client operation.                     *)
(***************************************************************************)
\* a result that is an error of the network class
NetworkFailure(r) == ~r.ok /\ r.err.kind = "NetworkError"

\* a result that is an error of another class
OtherFailure(r) == ~r.ok /\ r.err.kind # "NetworkError" /\ r # NoVerdict

\* the service fails its first k ready() calls with network errors and
\* answers the next one with success
RecoversAfter(k) ==
    /\ k + 1 \in DOMAIN svc
    /\ \A j \in 1..k : NetworkFailure(svc[j])
    /\ svc[k + 1].ok

(***************************************************************************)
(* C22: when the service fails its first k attempts to get ready with      *)
(* network errors and succeeds at attempt k+1, a finished operation has    *)
(* asked the service k+1 times and has gone on to send its request.        *)
(***************************************************************************)
C22_RetriesUntilReady ==
    \A k \in 0..(MaxAttempts - 1) :
       (op.pc = "done" /\ RecoversAfter(k))
          => op.readies = k + 1 /\ Len(op.sent) = 1

(***************************************************************************)
(* C23: an error that is not of the network class ends the operation where *)
(* it occurs and is returned as it is: after such an error from ready()    *)
(* nothing was sent and ready() was asked once; after such an error from   *)
(* call() or from the reply the request was sent once.                     *)
(***************************************************************************)
C23_OtherErrorsNotRetried ==
    /\ (op.readies >= 1 /\ OtherFailure(svc[1]))
          => /\ op.pc = "done" /\ op.res = svc[1]
             /\ op.readies = 1 /\ op.sent = <<>>
    /\ OtherFailure(op.got)
          => /\ op.pc = "done" /\ op.res = op.got
             /\ op.readies = 1 /\ Len(op.sent) = 1
    /\ (op.got.ok /\ OtherFailure(verdict))
          => /\ op.pc = "done" /\ op.res = verdict
             /\ op.readies = 1 /\ Len(op.sent) = 1

C23_Witness ==
    /\ op.pc = "done"
    /\ svc[1] = VErr(Error("AuthError", "unauthorized"))
    /\ svc[2].ok
    /\ op.res = svc[1]
    /\ op.readies = 1

(***************************************************************************)
(* C29: the request exchange_versions sends has a `major`, a `minor` and a *)
(* `release` child, and the text of each is the decimal text of the field  *)
(* of that name in the caller's VersionInfo (no text when the field is     *)
(* None).                                                                  *)
(***************************************************************************)
C29_TextOf(req, n) ==
    {req.children[k].text : k \in {j \in DOMAIN req.children : req.children[j].name = n}}

C29_FieldsByName ==
    \A k \in DOMAIN op.sent :
       op.o.kind = "exchange_versions"
          => /\ C29_TextOf(op.sent[k], "major") = {MapFormat(op.o.info.major)}
             /\ C29_TextOf(op.sent[k], "minor") = {MapFormat(op.o.info.minor)}
             /\ C29_TextOf(op.sent[k], "release") = {MapFormat(op.o.info.release)}

(***************************************************************************)
(* C24: the handshake returns an authenticated session only after it has   *)
(* read a nonce and written its auth2 frame; a handshake that ends before  *)
(* any auth2 frame was written ends with an error.                         *)
(***************************************************************************)
Auth2Sent == \E k \in DOMAIN wire : wire[k].dir = "w" /\ wire[k].kind = "auth2"

NonceReceived ==
    \E f \in HsFrames : \E k \in DOMAIN HsFrame(f) : HsFrame(f)[k].name = "nonce"

C24_AuthorizedOnlyAfterAuth2 ==
    /\ (hs.pc = "done" /\ hs.res.ok) => (NonceReceived /\ Auth2Sent)
    /\ (hs.pc = "done" /\ ~Auth2Sent) => ~hs.res.ok

(***************************************************************************)
(* C25: the frames of the handshake alternate, a write then a read: the    *)
(* client writes auth1, then at most one auth2, at most two frames in all; *)
(* it reads one frame after each frame it wrote and none otherwise; once   *)
(* it has read two frames it has returned.                                 *)
(***************************************************************************)
HsWire ==
    SelectSeq(wire, LAMBDA e : e.kind \in {"auth1", "auth2", "hs"}
                                  \/ (e.kind = "bad" /\ e.id = 0))

C25_Alternates(w) ==
    /\ Len(w) <= 4
    /\ \A k \in DOMAIN w : w[k].dir = (IF k % 2 = 1 THEN "w" ELSE "r")
    /\ \A k \in DOMAIN w :
          w[k].dir = "w" => w[k].kind = (IF k = 1 THEN "auth1" ELSE "auth2")
    /\ Len(w) = 4 => hs.pc = "done"

C25_BoundedAlternating == C25_Alternates(HsWire)

C25_Witness ==
    /\ Len(HsWire) = 4
    /\ HsWire[3].kind = "auth2"
    /\ hs.pc = "done"
    /\ ~hs.res.ok

(***************************************************************************)
(* C26: whenever decode can be called, next_index is at most the length of *)
(* the buffer and none of the first next_index bytes of the buffer is the  *)
(* terminator; a decode call on a buffer without a terminator returns None *)
(* (more data needed), leaves the buffer as it is and sets next_index to   *)
(* the length of the buffer.                                               *)
(***************************************************************************)
C26_OffsetInv ==
    /\ next_index <= Len(src)
    /\ \A i \in 1..next_index : src[i] # TERMCHAR

C26_NoneRemembers ==
    Terminators(src) = {}
       => /\ dec'.res = DecNone
          /\ src' = src
          /\ next_index' = Len(src)

C26_ScanOffset == []C26_OffsetInv /\ [][Decodes => C26_NoneRemembers]_vars

C26_Witness ==
    /\ dec.res = DecNone
    /\ Len(src) > 1
    /\ next_index = Len(src)
    /\ net # <<>>

(***************************************************************************)
(* C27: a query that was waiting for its reply and returns without having  *)
(* read a frame (the read failed or the stream ended) returns an error of  *)
(* the network class.                                                      *)
(***************************************************************************)
C27_NoFrameRead(i) ==
    /\ fut[i].pc = "recv"
    /\ fut'[i].pc = "done"
    /\ wire' = wire

C27_EndOfStreamIsNetworkError ==
    [][\A i \in Calls :
          C27_NoFrameRead(i) => fut'[i].res.err.kind = "NetworkError"]_vars

(***************************************************************************)
(* C28: a task whose readiness poll returned Pending because a query holds *)
(* the lock eventually sees poll_ready return Ready(Ok), unless the        *)
(* connection fails or a call future is abandoned.                         *)
(***************************************************************************)
C28_Unhealthy ==
    \/ state.tag = "Error"
    \/ \E i \in Calls : fut[i].pc \in {"dropped", "panicked"}

C28_NoLostWakeup ==
    (pollOut = PollPending /\ lockHolder # 0)
       ~> (pollOut = PollReadyOk \/ C28_Unhealthy)

=============================================================================
